---- MODULE Spec2Model ----
(***************************************************************************)
(* Model of the xcf-monitoring repository: the CSV writers                 *)
(* (lakeshore/poll_model_336.py, lakeshore/model_336.py,                   *)
(* inficon/poll_vgc503.py), the pandas tail readers                        *)
(* (inficon/plot_vgc503.py, lakeshore/plot_model_336.py) and their loops.  *)
(*                                                                         *)
(* A file is a sequence of text atoms.  The atoms ",", "\r" and "\n" are   *)
(* the separator and terminator bytes; every other atom stands for a piece *)
(* of text free of separators, terminators and quotes (a label such as     *)
(* "input_a" is one atom, a number is a sequence of digit atoms).          *)
(***************************************************************************)
EXTENDS Naturals, Integers, Sequences, FiniteSets, TLC

VARIABLES
    fs,             \* path -> [exists, content]: the files on disk
    handles,        \* number of file objects a writer script has open
    script,         \* the writer script that runs
    channel_flags,  \* poll_model_336.py: [channel_a, channel_b, channel_c, channel_d]
    header_ok,      \* poll_model_336.py: module-level flag
    pc,             \* position of the writer script
    exc,            \* the uncaught exception that ended the writer script, or "none"
    clock,          \* wall clock, advanced by every row a writer builds
    sessions,       \* number of runs of the writer script started so far
    checks,         \* history: calls of check_header in this run
    appended,       \* history: data rows appended in this run
    written,        \* history: the data rows the writer scripts appended, in order
    wire,           \* poll_vgc503.py: bytes waiting in the serial port
    buffer,         \* poll_vgc503.py: receiving's buffer
    sent,           \* history: the lines the gauge controller has transmitted, in order
    split,          \* history: the last call of handle_buffer, its argument and result
    pending,        \* bytes of a row handed to the file object and not yet on disk
    viewer,         \* the plot script that runs
    rpc,            \* position of the plot script
    rexc,           \* the uncaught exception that ended the plot script, or "none"
    df,             \* what the last call of gauge_data / temperature_data returned
    seen,           \* history: Len(written) when df was read
    torn,           \* history: the unterminated last line of the file when df was read
    raw             \* history: a line was appended to a log file by hand

diskVars == <<fs, handles>>
sessionVars == <<script, channel_flags, header_ok, pc, exc, sessions, checks, appended>>
serialVars == <<wire, buffer, sent, split>>
readerVars == <<viewer, rpc, rexc, df, seen, torn>>

vars == <<fs, handles, script, channel_flags, header_ok, pc, exc, clock, sessions,
          checks, appended, written, wire, buffer, sent, split, pending, viewer,
          rpc, rexc, df, seen, torn, raw>>

(***************************************************************************)
(* Bounds of the model                                                     *)
(***************************************************************************)
MaxTicks == 2
MaxSessions == 2

(***************************************************************************)
(* Text                                                                    *)
(***************************************************************************)
COMMA == ","
CR == "\r"
LF == "\n"

Digit == <<"0", "1", "2", "3", "4", "5", "6", "7", "8", "9">>

\* str(datetime.datetime.now()) at clock value k
now(k) == <<"T", Digit[k + 1]>>

\* The elements of a finite set of numbers, in increasing order
Sorted(S) ==
    [k \in 1..Cardinality(S) |->
        CHOOSE x \in S : Cardinality({y \in S : y < x}) = k - 1]

\* ','.join(row), by halves
RECURSIVE Join(_)
Join(row) ==
    IF row = <<>> THEN <<>>
    ELSE IF Len(row) = 1 THEN row[1]
    ELSE LET h == Len(row) \div 2
         IN  Join(SubSeq(row, 1, h)) \o <<COMMA>> \o Join(SubSeq(row, h + 1, Len(row)))

\* csv.writer(f).writerow(row): the fields joined by commas, then "\r\n"
writerow(row) == Join(row) \o <<CR, LF>>

\* The positions where a line terminator ends: a "\n", or a "\r" that no "\n" follows
BreakEnds(text) ==
    {i \in 1..Len(text) :
        \/ text[i] = LF
        \/ text[i] = CR /\ (i = Len(text) \/ text[i + 1] # LF)}

\* The position where the terminator ending at e starts
BreakStart(text, e) ==
    IF text[e] = LF /\ e > 1 /\ text[e - 1] = CR THEN e - 1 ELSE e

\* The lines of a text: a line ends at "\r\n", "\r" or "\n"; text after the last
\* terminator is a line too
SplitLines(text) ==
    LET E == Sorted(BreakEnds(text))
        n == Len(E)
        terminated == [k \in 1..n |->
                          SubSeq(text, IF k = 1 THEN 1 ELSE E[k - 1] + 1,
                                 BreakStart(text, E[k]) - 1)]
        last == IF n = 0 THEN text ELSE SubSeq(text, E[n] + 1, Len(text))
    IN  IF last = <<>> THEN terminated ELSE Append(terminated, last)

\* The fields of a line: the text between its commas
SplitFields(line) ==
    LET C == Sorted({i \in 1..Len(line) : line[i] = COMMA})
        n == Len(C)
    IN  [k \in 1..(n + 1) |->
            SubSeq(line, IF k = 1 THEN 1 ELSE C[k - 1] + 1,
                   IF k = n + 1 THEN Len(line) ELSE C[k] - 1)]

\* csv.reader(f): one list of fields per line, the empty list for an empty line
csv_reader(text) ==
    LET lines == SplitLines(text)
    IN  [i \in 1..Len(lines) |->
            IF lines[i] = <<>> THEN <<>> ELSE SplitFields(lines[i])]

(***************************************************************************)
(* The file system                                                         *)
(***************************************************************************)
file_path == "lakeshore_model_336_data.csv"
data_csv == "data.csv"
Paths == {file_path, data_csv}

NoFile == [exists |-> FALSE, content |-> <<>>]
NoFiles == [p \in Paths |-> NoFile]

\* os.path.isfile(path)
isfile(files, path) == files[path].exists

\* open(path, 'a'): creates the file when it is missing; one more open file object
open_append(st, path) ==
    [fs |-> [st.fs EXCEPT ![path] = [exists |-> TRUE, content |-> st.fs[path].content]],
     handles |-> st.handles + 1]

\* writer.writerow(row) on a file opened for appending
write_row(st, row, path) ==
    [st EXCEPT !.fs[path].content = @ \o writerow(row)]

\* leaving the with block closes the file object
close_file(st) == [st EXCEPT !.handles = @ - 1]

\* a writer that rewrites the file instead of appending to it
append_rewrite(st, row, path) ==
    [fs |-> [st.fs EXCEPT ![path] = [exists |-> TRUE, content |-> writerow(row)]],
     handles |-> st.handles]

\* append(row, file_path) of poll_model_336.py, append(row) of model_336.py and
\* addrow(row) of poll_vgc503.py
append(st, row, path) == close_file(write_row(open_append(st, path), row, path))

(***************************************************************************)
(* lakeshore/poll_model_336.py                                             *)
(***************************************************************************)
FlagSets == [1..4 -> BOOLEAN]

channel_alpha_map == <<"A", "B", "C", "D">>

\* [ idx+1 for idx, _ in enumerate(channel_flags) if _ ]
channels(flags) == SelectSeq(<<1, 2, 3, 4>>, LAMBDA i : flags[i])

channels_alpha(flags) ==
    [i \in 1..Len(channels(flags)) |-> channel_alpha_map[channels(flags)[i]]]

\* 'input_{}'.format(_.lower())
format_input(alpha) ==
    CASE alpha = "A" -> <<"input_a">>
      [] alpha = "B" -> <<"input_b">>
      [] alpha = "C" -> <<"input_c">>
      [] alpha = "D" -> <<"input_d">>

\* '<prefix>_{}'.format(channel)
Labels ==
    [setpoint           |-> <<"setpoint_1", "setpoint_2", "setpoint_3", "setpoint_4">>,
     heater_range       |-> <<"heater_range_1", "heater_range_2", "heater_range_3", "heater_range_4">>,
     heater_output      |-> <<"heater_output_1", "heater_output_2", "heater_output_3", "heater_output_4">>,
     heater_max_current |-> <<"heater_max_current_1", "heater_max_current_2", "heater_max_current_3", "heater_max_current_4">>,
     heater_p           |-> <<"heater_p_1", "heater_p_2", "heater_p_3", "heater_p_4">>,
     heater_i           |-> <<"heater_i_1", "heater_i_2", "heater_i_3", "heater_i_4">>,
     heater_d           |-> <<"heater_d_1", "heater_d_2", "heater_d_3", "heater_d_4">>]

format_channel(prefix, ch) == <<Labels[prefix][ch]>>

temperature_labels(flags) ==
    [i \in 1..Len(channels_alpha(flags)) |-> format_input(channels_alpha(flags)[i])]

channel_labels(prefix, flags) ==
    [i \in 1..Len(channels(flags)) |-> format_channel(prefix, channels(flags)[i])]

header_row(flags) ==
    << <<"datetime">> >> \o temperature_labels(flags)
        \o channel_labels("setpoint", flags)
        \o channel_labels("heater_range", flags)
        \o channel_labels("heater_output", flags)
        \o channel_labels("heater_max_current", flags)
        \o channel_labels("heater_p", flags)
        \o channel_labels("heater_i", flags)
        \o channel_labels("heater_d", flags)

\* What the instrument answers in one pass of the loop, as the text csv writes for
\* it: int(...) for the heater range, float(...) for the heater output and the
\* maximal current
Readings ==
    { [temperature |-> <<"2", "5">>, setpoint |-> <<"2", "0">>,
       heater_range |-> <<"1">>, heater_output |-> <<"5", ".", "0">>,
       heater_max_current |-> <<"2", ".", "0">>,
       gain |-> <<"5", "0">>, integral |-> <<"2", "0">>, ramp_rate |-> <<"0">>] }

\* [ lake.get_...(_) for _ in channels ]: one value per enabled channel
poll_list(flags, v) == [i \in 1..Len(channels(flags)) |-> v]

\* a row that leaves out the heater_d list
poll_row_short(flags, r, k) ==
    <<now(k)>> \o poll_list(flags, r.temperature) \o poll_list(flags, r.setpoint)
        \o poll_list(flags, r.heater_range) \o poll_list(flags, r.heater_output)
        \o poll_list(flags, r.heater_max_current)
        \o poll_list(flags, r.gain) \o poll_list(flags, r.integral)

\* row = [ str(datetime.datetime.now()) ] + temperature + setpoint + heater_range
\*       + heater_output + heater_max_current + heater_p + heater_i + heater_d
poll_row(flags, r, k) ==
    <<now(k)>> \o poll_list(flags, r.temperature) \o poll_list(flags, r.setpoint)
        \o poll_list(flags, r.heater_range) \o poll_list(flags, r.heater_output)
        \o poll_list(flags, r.heater_max_current)
        \o poll_list(flags, r.gain) \o poll_list(flags, r.integral)
        \o poll_list(flags, r.ramp_rate)

\* a check that accepts whatever the file starts with
check_header_lax(header, text) == "True"

\* check_header(header_row, file_path) on a file holding text: "True", or the
\* exception it raises.  The loop body runs for the first row only; a file without
\* any row is accepted.
check_header(header, text) ==
    LET rows == csv_reader(text)
    IN  IF rows # <<>> /\ header # rows[1] THEN "ValueError" ELSE "True"

\* a loop that checks the header on every tick
need_check_always(ok) == TRUE

\* if not header_ok: ...
need_check(ok) == ~ok

\* The instrument is queried once per list and enabled channel: with no channel
\* enabled no call is made, so none can raise.
can_raise(flags) == channels(flags) # <<>>

\* channel_a .. channel_d as the repository configures them
DefaultFlags == <<TRUE, TRUE, TRUE, FALSE>>

\* handle_buffer has not been called
NoCall == [called |-> FALSE, arg |-> <<>>, lines |-> <<>>, leftover |-> <<>>]

NoFrame ==
    [error |-> "unread", columns |-> <<>>, rows |-> <<>>, objects |-> {}, n |-> 0,
     raw |-> FALSE]

TypeOK ==
    /\ \A p \in Paths : fs[p].exists \in BOOLEAN /\ fs[p].content \in Seq(STRING)
    /\ \A p \in Paths : ~fs[p].exists => fs[p].content = <<>>
    /\ handles \in Nat
    /\ script \in {"poll_model_336", "model_336", "poll_vgc503"}
    /\ channel_flags \in FlagSets
    /\ header_ok \in BOOLEAN
    /\ pc \in {"CONNECTING", "POLLING", "TERMINATED"}
    /\ exc \in {"none", "ConnectError", "InstrumentError", "ValueError", "IndexError"}
    /\ clock \in 0..MaxTicks
    /\ sessions \in 1..MaxSessions
    /\ checks \in Nat
    /\ appended \in Nat
    /\ written \in Seq(Seq(Seq(STRING)))
    /\ wire \in Seq(STRING)
    /\ buffer \in Seq(STRING)
    /\ sent \in Seq(Seq(STRING))
    /\ split.called \in BOOLEAN /\ split.arg \in Seq(STRING)
    /\ pending \in Seq(STRING)
    /\ viewer \in {"plot_vgc503", "plot_model_336", "plot"}
    /\ rpc \in {"INIT", "SLEEP", "TERMINATED"}
    /\ rexc \in {"none", "FileNotFoundError", "EmptyDataError", "ValueError",
                 "ParserError", "IndexError", "KeyError", "TypeError"}
    /\ viewer # "plot" =>
          df.error \in {"unread", "none", "FileNotFoundError", "EmptyDataError",
                        "ValueError", "ParserError"}
    /\ seen \in Nat
    /\ torn \in Seq(STRING)
    /\ raw \in BOOLEAN

\* The parts of the state a specification does not use
IdleSerial == wire = <<>> /\ buffer = <<>> /\ sent = <<>> /\ split = NoCall
IdleReader ==
    /\ viewer = "plot_model_336"
    /\ rpc = "INIT"
    /\ rexc = "none"
    /\ df = NoFrame
    /\ seen = 0
    /\ torn = <<>>

\* python poll_model_336.py, started with no log file present
Init ==
    /\ fs = NoFiles
    /\ handles = 0
    /\ script = "poll_model_336"
    /\ channel_flags \in FlagSets
    /\ header_ok = FALSE
    /\ pc = "CONNECTING"
    /\ exc = "none"
    /\ clock = 0
    /\ sessions = 1
    /\ checks = 0
    /\ appended = 0
    /\ written = <<>>
    /\ pending = <<>>
    /\ raw = FALSE
    /\ IdleSerial
    /\ IdleReader

\* lake = Model336(com_port='COM4') of the lakeshore scripts, and
\* ser = serial.Serial(usbdevice, baud) of poll_vgc503.py
Connect ==
    /\ pc = "CONNECTING"
    /\ \E ok \in BOOLEAN :
          /\ pc' = IF ok THEN "POLLING" ELSE "TERMINATED"
          /\ exc' = IF ok THEN "none" ELSE "ConnectError"
    /\ UNCHANGED <<diskVars, script, channel_flags, header_ok, sessions, checks,
                   appended, clock, written, serialVars, pending, readerVars, raw>>

\* One pass of the while loop of poll_model_336.py
Tick ==
    /\ script = "poll_model_336"
    /\ pc = "POLLING"
    /\ clock < MaxTicks
    /\ \E fault \in {f \in BOOLEAN : f => can_raise(channel_flags)}, r \in Readings :
          IF fault
          THEN \* a lake.get_... call raises: nothing catches it
               /\ pc' = "TERMINATED"
               /\ exc' = "InstrumentError"
               /\ UNCHANGED <<diskVars, header_ok, clock, checks, appended, written>>
          ELSE LET st0 == [fs |-> fs, handles |-> handles]
                   row == poll_row(channel_flags, r, clock)
                   header == header_row(channel_flags)
                   st1 == IF ~isfile(fs, file_path)
                          THEN append(st0, header, file_path)
                          ELSE st0
                   checking == need_check(header_ok)
                   res == IF checking
                          THEN check_header(header, st1.fs[file_path].content)
                          ELSE "True"
                   st2 == append(st1, row, file_path)
               IN  /\ clock' = clock + 1
                   /\ checks' = IF checking THEN checks + 1 ELSE checks
                   /\ IF res = "ValueError"
                      THEN /\ fs' = st1.fs
                           /\ handles' = st1.handles
                           /\ pc' = "TERMINATED"
                           /\ exc' = "ValueError"
                           /\ UNCHANGED <<header_ok, appended, written>>
                      ELSE /\ fs' = st2.fs
                           /\ handles' = st2.handles
                           /\ header_ok' = IF checking THEN TRUE ELSE header_ok
                           /\ appended' = appended + 1
                           /\ written' = Append(written, row)
                           /\ UNCHANGED <<pc, exc>>
    /\ UNCHANGED <<script, channel_flags, sessions, serialVars, pending,
                   readerVars, raw>>

\* The script is stopped and started again, possibly after its configurable
\* parameters were edited
Restart ==
    /\ script = "poll_model_336"
    /\ sessions < MaxSessions
    /\ sessions' = sessions + 1
    /\ channel_flags' \in FlagSets
    /\ header_ok' = FALSE
    /\ pc' = "CONNECTING"
    /\ exc' = "none"
    /\ handles' = 0
    /\ checks' = 0
    /\ appended' = 0
    /\ UNCHANGED <<fs, script, clock, written, serialVars, pending, readerVars, raw>>

\* Somebody removes a log file
ExternalRemove ==
    \E p \in Paths :
        /\ fs[p].exists
        /\ pending = <<>>
        /\ fs' = [fs EXCEPT ![p] = NoFile]
        /\ UNCHANGED <<handles, sessionVars, clock, written, serialVars, pending,
                       readerVars, raw>>

\* The first k lines of a text, with their terminators
first_lines(text, k) ==
    IF k = 0 THEN <<>> ELSE SubSeq(text, 1, Sorted(BreakEnds(text))[k])

\* Somebody truncates a log file: to zero length, or to its first lines
ExternalTruncate ==
    \E p \in Paths :
        /\ fs[p].exists
        /\ pending = <<>>
        /\ \E k \in 0..Cardinality(BreakEnds(fs[p].content)) :
              /\ first_lines(fs[p].content, k) # fs[p].content
              /\ fs' = [fs EXCEPT ![p].content = first_lines(fs[p].content, k)]
        /\ UNCHANGED <<handles, sessionVars, clock, written, serialVars, pending,
                       readerVars, raw>>

Next == Connect \/ Tick \/ Restart \/ ExternalRemove \/ ExternalTruncate

Spec == Init /\ [][Next]_vars

(***************************************************************************)
(* lakeshore/model_336.py                                                  *)
(***************************************************************************)
\* row = [ str(datetime.datetime.now()) ] + temperatures + setpoints + ...: the
\* eight values of channel 1
m336_row(r, k) ==
    <<now(k), r.temperature, r.setpoint, r.heater_range, r.heater_output,
      r.heater_max_current, r.gain, r.integral, r.ramp_rate>>

\* One pass of the while loop of model_336.py
M336Tick ==
    /\ script = "model_336"
    /\ pc = "POLLING"
    /\ clock < MaxTicks
    /\ \E fault \in BOOLEAN, r \in Readings :
          IF fault
          THEN /\ pc' = "TERMINATED"
               /\ exc' = "InstrumentError"
               /\ UNCHANGED <<diskVars, clock, appended, written>>
          ELSE LET row == m336_row(r, clock)
                   st == append([fs |-> fs, handles |-> handles], row, file_path)
               IN  /\ fs' = st.fs
                   /\ handles' = st.handles
                   /\ clock' = clock + 1
                   /\ appended' = appended + 1
                   /\ written' = Append(written, row)
                   /\ UNCHANGED <<pc, exc>>
    /\ UNCHANGED <<script, channel_flags, header_ok, sessions, checks, serialVars,
                   pending, readerVars, raw>>

(***************************************************************************)
(* inficon/poll_vgc503.py                                                  *)
(***************************************************************************)
\* The positions where a "\r\n" starts
CrlfStarts(bytes) ==
    {i \in 1..(Len(bytes) - 1) : bytes[i] = CR /\ bytes[i + 1] = LF}

\* bytes.split(b'\r\n')
split_crlf(bytes) ==
    LET S == Sorted(CrlfStarts(bytes))
        n == Len(S)
    IN  [k \in 1..(n + 1) |->
            SubSeq(bytes, IF k = 1 THEN 1 ELSE S[k - 1] + 2,
                   IF k = n + 1 THEN Len(bytes) ELSE S[k] - 1)]

\* a split that forgets the bytes after the last "\r\n"
handle_buffer_drop(bytes) ==
    LET l == split_crlf(bytes)
    IN  <<SubSeq(l, 1, Len(l) - 1), <<>> >>

\* handle_buffer(buffer): <<complete lines, leftover>>
handle_buffer(bytes) ==
    LET l == split_crlf(bytes)
    IN  IF Len(l) = 1 THEN <<l, <<>> >>
        ELSE <<SubSeq(l, 1, Len(l) - 1), l[Len(l)]>>

\* a parser that fills the fields a short row lacks with empty text
parserow_lenient(row) ==
    LET strs == SplitFields(row)
        at(i) == IF i <= Len(strs) THEN strs[i] ELSE <<>>
    IN  [error |-> "none", fields |-> <<at(2), at(4), at(6)>>]

\* parserow(row): [strs[1], strs[3], strs[5]], or the IndexError of a row with
\* fewer than six fields
parserow(row) ==
    LET strs == SplitFields(row)
    IN  IF Len(strs) < 6 THEN [error |-> "IndexError", fields |-> <<>>]
        ELSE [error |-> "none", fields |-> <<strs[2], strs[4], strs[6]>>]

\* What the gauge controller transmits: a line of three (status, value) pairs, or
\* a line cut short
GaugeLines ==
    { Join(<< <<"0">>, <<"9">>, <<"0">>, <<"8">>, <<"0">>, <<"7">> >>),
      Join(<< <<"0">>, <<"9">>, <<"0">> >>) }

\* The bytes the serial port holds at most
MaxWire == 14

\* The gauge controller transmits one more line
GaugeSend ==
    /\ script = "poll_vgc503"
    /\ pc = "POLLING"
    /\ Len(written) + Cardinality(CrlfStarts(buffer \o wire)) < MaxTicks
    /\ \E line \in GaugeLines :
          /\ Len(wire) + Len(line) + 2 <= MaxWire
          /\ wire' = wire \o line \o <<CR, LF>>
          /\ sent' = Append(sent, line)
    /\ UNCHANGED <<diskVars, sessionVars, clock, written, buffer, split, pending,
                   readerVars, raw>>

\* addrow(r) for every r of parsedrows, in order
RECURSIVE addrows(_, _)
addrows(st, rows) ==
    IF rows = <<>> THEN st
    ELSE addrows(append(st, Head(rows), data_csv), Tail(rows))

\* One pass of the while loop of receiving(ser)
Receiving ==
    /\ script = "poll_vgc503"
    /\ pc = "POLLING"
    /\ \E fault \in BOOLEAN, k \in 0..Len(wire) :
          IF fault
          THEN \* ser.read raises: nothing catches it
               /\ pc' = "TERMINATED"
               /\ exc' = "InstrumentError"
               /\ UNCHANGED <<diskVars, clock, appended, written, serialVars>>
          ELSE LET read == buffer \o SubSeq(wire, 1, k)
                   hb == handle_buffer(read)
                   rows == hb[1]
                   parsed == [i \in 1..Len(rows) |-> parserow(rows[i])]
                   parsedrows == [i \in 1..Len(rows) |->
                                     <<now(clock + i - 1)>> \o parsed[i].fields]
                   st == addrows([fs |-> fs, handles |-> handles], parsedrows)
               IN  /\ wire' = SubSeq(wire, k + 1, Len(wire))
                   /\ sent' = sent
                   /\ split' = IF CrlfStarts(read) = {} THEN split
                               ELSE [called |-> TRUE, arg |-> read,
                                     lines |-> hb[1], leftover |-> hb[2]]
                   /\ IF CrlfStarts(read) = {}
                      THEN /\ buffer' = read
                           /\ UNCHANGED <<diskVars, pc, exc, clock, appended, written>>
                      ELSE IF \E i \in 1..Len(rows) : parsed[i].error = "IndexError"
                      THEN \* parserow raises inside map: the thread ends
                           /\ buffer' = read
                           /\ pc' = "TERMINATED"
                           /\ exc' = "IndexError"
                           /\ UNCHANGED <<diskVars, clock, appended, written>>
                      ELSE /\ buffer' = hb[2]
                           /\ fs' = st.fs
                           /\ handles' = st.handles
                           /\ clock' = clock + Len(rows)
                           /\ appended' = appended + Len(rows)
                           /\ written' = written \o parsedrows
                           /\ UNCHANGED <<pc, exc>>
    /\ UNCHANGED <<script, channel_flags, header_ok, sessions, checks, pending,
                   readerVars, raw>>

(***************************************************************************)
(* inficon/plot_vgc503.py and lakeshore/plot_model_336.py: the readers      *)
(***************************************************************************)
\* rows = 86400, the number of rows the plot scripts ask for
rows_default == 86400

Max(a, b) == IF a >= b THEN a ELSE b

\* What pandas makes of an empty field
NaN == <<"NaN">>

NumberAtoms == {"0", "1", "2", "3", "4", "5", "6", "7", "8", "9", ".", "-", "E"}

\* Text that parses as a number
IsNumber(field) == field # <<>> /\ \A i \in 1..Len(field) : field[i] \in NumberAtoms

\* The records pandas tokenizes: one per line, blank lines skipped, the text after
\* the last terminator being a line like the others
records(text) ==
    LET lines == SelectSeq(SplitLines(text), LAMBDA l : l # <<>>)
    IN  [i \in 1..Len(lines) |-> SplitFields(lines[i])]

\* A record as a row of a frame of the given width: missing trailing fields and
\* empty fields are NaN
frame_row(rec, width) ==
    [c \in 1..Max(width, Len(rec)) |->
        IF c > Len(rec) \/ rec[c] = <<>> THEN NaN ELSE rec[c]]

\* The columns (but the first, the datetime) that hold text that is no number: pandas
\* leaves such a column as strings
object_columns(recs, width) ==
    {c \in 2..width : \E i \in 1..Len(recs) :
        c <= Len(recs[i]) /\ recs[i][c] # <<>> /\ ~IsNumber(recs[i][c])}

\* DataFrame.tail(n)
tail(rows, n) ==
    IF n >= Len(rows) THEN rows ELSE SubSeq(rows, Len(rows) - n + 1, Len(rows))

Failed(name) == [error |-> name, columns |-> <<>>, rows |-> <<>>, objects |-> {}]

gauge_names == << <<"datetime">>, <<"ch1">>, <<"ch2">>, <<"ch3">> >>

\* gauge_data(filename, n): pd.read_csv(filename, names=names,
\* parse_dates=['datetime']).tail(n).  Every line is data.  The tokenizer raises on
\* a line, after the first, with more fields than the first line or the names.
gauge_data(file, n) ==
    IF ~file.exists THEN Failed("FileNotFoundError")
    ELSE LET recs == records(file.content)
             width == IF recs = <<>> THEN Len(gauge_names)
                      ELSE Max(Len(recs[1]), Len(gauge_names))
         IN  IF \E i \in 2..Len(recs) : Len(recs[i]) > width
             THEN Failed("ParserError")
             ELSE [error |-> "none",
                   columns |-> gauge_names,
                   rows |-> tail([i \in 1..Len(recs) |-> frame_row(recs[i], width)], n),
                   objects |-> object_columns(recs, width)]

\* temperature_data(filename, n): pd.read_csv(filename,
\* parse_dates=['datetime']).tail(n).  The first line is the header; a file without
\* any line has no columns; a header without 'datetime' fails parse_dates; the
\* tokenizer raises on a data line, after the first, with more fields than the
\* header and the first data line.
temperature_data(file, n) ==
    IF ~file.exists THEN Failed("FileNotFoundError")
    ELSE LET recs == records(file.content)
             data == Tail(recs)
             width == IF data = <<>> THEN Len(recs[1])
                      ELSE Max(Len(recs[1]), Len(data[1]))
         IN  IF recs = <<>> THEN Failed("EmptyDataError")
             ELSE IF ~(\E c \in 1..Len(recs[1]) : recs[1][c] = <<"datetime">>)
             THEN Failed("ValueError")
             ELSE IF \E i \in 2..Len(data) : Len(data[i]) > width
             THEN Failed("ParserError")
             ELSE [error |-> "none",
                   columns |-> recs[1],
                   rows |-> tail([i \in 1..Len(data) |-> frame_row(data[i], width)], n),
                   objects |-> object_columns(data, width)]

\* The log file a plot script is pointed at, and its reader
input_file(v) == IF v = "plot_vgc503" THEN data_csv ELSE file_path

read_frame(v, files, n) ==
    IF v = "plot_vgc503" THEN gauge_data(files[data_csv], n)
    ELSE temperature_data(files[file_path], n)

\* The text after the last line terminator of a file
UnterminatedTail(text) ==
    LET B == BreakEnds(text)
    IN  IF B = {} THEN text
        ELSE SubSeq(text, (CHOOSE e \in B : \A x \in B : x <= e) + 1, Len(text))

\* The position of a column in a frame, 0 when the frame has no such column
column(frame, name) ==
    IF \E c \in 1..Len(frame.columns) : frame.columns[c] = <<name>>
    THEN CHOOSE c \in 1..Len(frame.columns) : frame.columns[c] = <<name>>
    ELSE 0

\* df[name].iloc[-1] of a frame that has the column and a row
last_value(frame, name) == frame.rows[Len(frame.rows)][column(frame, name)]

\* plot(ax, df, truncate) of plot_vgc503.py: "none", or the exception it raises.
\* df['ch1'].iloc[-1] needs a row; '{:.2E}'.format needs a number.
plot_vgc503_plot(frame) ==
    IF frame.rows = <<>> THEN "IndexError"
    ELSE IF frame.objects \cap {column(frame, "ch1"), column(frame, "ch2")} # {}
    THEN "ValueError"
    ELSE "none"

heater_range_dict == {<<"0">>, <<"1">>, <<"2">>, <<"3">>}

\* plot(ax1, ax2, df) of plot_model_336.py: "none", or the exception it raises.
\* It reads the columns of channels A and B, needs a row for iloc[-1] and a heater
\* range that heater_range_dict knows.
plot_model_336_plot(frame) ==
    IF column(frame, "input_a") = 0 \/ column(frame, "input_b") = 0 THEN "KeyError"
    ELSE IF frame.rows = <<>> THEN "IndexError"
    ELSE IF last_value(frame, "heater_range_1") \notin heater_range_dict
            \/ last_value(frame, "heater_range_2") \notin heater_range_dict
    THEN "KeyError"
    ELSE "none"

plot(v, frame) ==
    IF v = "plot_vgc503" THEN plot_vgc503_plot(frame) ELSE plot_model_336_plot(frame)

\* The row counts a caller asks gauge_data / temperature_data for
MaxN == 2

\* A call df = gauge_data(input_file, n) or df = temperature_data(input_file, n)
Fetch ==
    /\ \E n \in 0..MaxN :
          df' = read_frame(viewer, fs, n) @@ [n |-> n, raw |-> raw]
    /\ seen' = Len(written)
    /\ torn' = UnterminatedTail(fs[input_file(viewer)].content)
    /\ UNCHANGED <<diskVars, sessionVars, clock, written, serialVars, pending,
                   viewer, rpc, rexc, raw>>

\* One fetch and draw of a plot script: the first, before plt.show(), or one pass of
\* its while loop.  An exception of the reader or of plot ends the script.
Render ==
    /\ rpc \in {"INIT", "SLEEP"}
    /\ LET frame == read_frame(viewer, fs, rows_default)
           drawn == IF frame.error # "none" THEN frame.error ELSE plot(viewer, frame)
       IN  /\ df' = frame @@ [n |-> rows_default, raw |-> raw]
           /\ rexc' = drawn
           /\ rpc' = IF drawn = "none" THEN "SLEEP" ELSE "TERMINATED"
    /\ seen' = Len(written)
    /\ torn' = UnterminatedTail(fs[input_file(viewer)].content)
    /\ UNCHANGED <<diskVars, sessionVars, clock, written, serialVars, pending,
                   viewer, raw>>

(***************************************************************************)
(* The pipelines: a writer script, its log file, the reader of that file   *)
(***************************************************************************)
\* The log file of a writer script and the plot script that reads it
log_of(sc) == IF sc = "poll_vgc503" THEN data_csv ELSE file_path
viewer_of(sc) == IF sc = "poll_vgc503" THEN "plot_vgc503" ELSE "plot_model_336"

\* The number of fields of the rows a writer script appends
row_width(sc, flags) ==
    IF sc = "poll_vgc503" THEN Len(gauge_names)
    ELSE IF sc = "model_336" THEN 9
    ELSE Len(header_row(flags))

\* Lines somebody appends to a log file by hand: a value that is no number, a line
\* cut short, a line with one field too many
RawRows(width, k) ==
    { <<now(k), <<"N", "a", "N", "t", "e", "x", "t">>>> \o [i \in 1..(width - 2) |-> <<"1">>],
      <<now(k), <<"1">>>>,
      <<now(k)>> \o [i \in 1..width |-> <<"1">>] }

RawAppend ==
    /\ ~raw
    /\ fs[log_of(script)].exists
    /\ pending = <<>>
    /\ \E row \in RawRows(row_width(script, channel_flags), clock) :
          fs' = [fs EXCEPT ![log_of(script)].content = @ \o writerow(row)]
    /\ raw' = TRUE
    /\ UNCHANGED <<handles, sessionVars, clock, written, serialVars, pending, readerVars>>

\* One of the three writer scripts is started with no log file present; calls of
\* the reader of its log file
InitPipes ==
    /\ fs = NoFiles
    /\ handles = 0
    /\ script \in {"poll_model_336", "model_336", "poll_vgc503"}
    /\ channel_flags = DefaultFlags
    /\ header_ok = FALSE
    /\ pc = "CONNECTING"
    /\ exc = "none"
    /\ clock = 0
    /\ sessions = 1
    /\ checks = 0
    /\ appended = 0
    /\ written = <<>>
    /\ pending = <<>>
    /\ raw = FALSE
    /\ IdleSerial
    /\ viewer = viewer_of(script)
    /\ rpc = "INIT"
    /\ rexc = "none"
    /\ df = NoFrame
    /\ seen = 0
    /\ torn = <<>>

NextPipes ==
    Connect \/ Tick \/ M336Tick \/ GaugeSend \/ Receiving \/ Fetch \/ RawAppend

SpecPipes == InitPipes /\ [][NextPipes]_vars

(***************************************************************************)
(* A reader beside a writer whose bytes reach the disk piece by piece      *)
(***************************************************************************)
\* The rows receiving hands to addrow: the time and the three values of a line
GaugeRows(k) == { <<now(k), <<"9">>, <<"8">>, <<"7">>>> }

\* addrow(row) up to writer.writerow(row): the file is open (created when it was
\* missing) and the line is in the file object's buffer
AddrowOpen ==
    /\ script = "poll_vgc503"
    /\ pc = "POLLING"
    /\ pending = <<>>
    /\ clock < MaxTicks
    /\ \E row \in GaugeRows(clock) :
          /\ fs' = open_append([fs |-> fs, handles |-> handles], data_csv).fs
          /\ handles' = handles + 1
          /\ pending' = writerow(row)
          /\ written' = Append(written, row)
    /\ clock' = clock + 1
    /\ appended' = appended + 1
    /\ UNCHANGED <<script, channel_flags, header_ok, pc, exc, sessions, checks,
                   serialVars, readerVars, raw>>

\* Bytes of the buffered line reach the disk; after the last of them the with
\* block closes the file object
AddrowFlush ==
    /\ pending # <<>>
    /\ \E k \in 1..Len(pending) :
          /\ fs' = [fs EXCEPT ![data_csv].content = @ \o SubSeq(pending, 1, k)]
          /\ pending' = SubSeq(pending, k + 1, Len(pending))
          /\ handles' = IF k = Len(pending) THEN handles - 1 ELSE handles
    /\ UNCHANGED <<sessionVars, clock, written, serialVars, readerVars, raw>>

InitTail ==
    /\ fs = NoFiles
    /\ handles = 0
    /\ script = "poll_vgc503"
    /\ channel_flags = DefaultFlags
    /\ header_ok = FALSE
    /\ pc = "CONNECTING"
    /\ exc = "none"
    /\ clock = 0
    /\ sessions = 1
    /\ checks = 0
    /\ appended = 0
    /\ written = <<>>
    /\ pending = <<>>
    /\ raw = FALSE
    /\ IdleSerial
    /\ viewer = "plot_vgc503"
    /\ rpc = "INIT"
    /\ rexc = "none"
    /\ df = NoFrame
    /\ seen = 0
    /\ torn = <<>>

NextTail == Connect \/ AddrowOpen \/ AddrowFlush \/ Fetch

SpecTail == InitTail /\ [][NextTail]_vars

(***************************************************************************)
(* A plot script beside the writer of its log file                         *)
(***************************************************************************)
InitRender ==
    /\ fs = NoFiles
    /\ handles = 0
    /\ script \in {"poll_model_336", "poll_vgc503"}
    /\ channel_flags = DefaultFlags
    /\ header_ok = FALSE
    /\ pc = "CONNECTING"
    /\ exc = "none"
    /\ clock = 0
    /\ sessions = 1
    /\ checks = 0
    /\ appended = 0
    /\ written = <<>>
    /\ pending = <<>>
    /\ raw = FALSE
    /\ IdleSerial
    /\ viewer = viewer_of(script)
    /\ rpc = "INIT"
    /\ rexc = "none"
    /\ df = NoFrame
    /\ seen = 0
    /\ torn = <<>>

NextRender ==
    Connect \/ Tick \/ GaugeSend \/ Receiving \/ ExternalTruncate \/ Render

SpecRender == InitRender /\ [][NextRender]_vars

(***************************************************************************)
(* handle_buffer on its own, called on any byte string                     *)
(***************************************************************************)
\* The bytes of the strings handle_buffer is called on
ByteAtoms == {CR, LF, COMMA, "0"}

\* The length of the longest of those strings
MaxBuffer == 4

ByteStrings == UNION {[1..m -> ByteAtoms] : m \in 0..MaxBuffer}

InitBuffer ==
    /\ fs = NoFiles
    /\ handles = 0
    /\ script = "poll_vgc503"
    /\ channel_flags = DefaultFlags
    /\ header_ok = FALSE
    /\ pc = "POLLING"
    /\ exc = "none"
    /\ clock = 0
    /\ sessions = 1
    /\ checks = 0
    /\ appended = 0
    /\ written = <<>>
    /\ pending = <<>>
    /\ raw = FALSE
    /\ wire = <<>>
    /\ buffer \in ByteStrings
    /\ sent = <<>>
    /\ split = NoCall
    /\ IdleReader

\* rows, leftover = handle_buffer(buffer)
HandleBuffer ==
    /\ ~split.called
    /\ LET hb == handle_buffer(buffer)
       IN  split' = [called |-> TRUE, arg |-> buffer, lines |-> hb[1], leftover |-> hb[2]]
    /\ UNCHANGED <<diskVars, sessionVars, clock, written, wire, buffer, sent, pending,
                   readerVars, raw>>

NextBuffer == HandleBuffer

SpecBuffer == InitBuffer /\ [][NextBuffer]_vars

(***************************************************************************)
(* poll_vgc503.py beside a gauge controller whose lines can be told apart  *)
(***************************************************************************)
\* The lines the gauge controller transmits at most
MaxLines == 3

\* The k-th line when it is well-formed: three (status, value) pairs, the first
\* value telling the lines apart
GaugeLine(k) == Join(<< <<"0">>, <<Digit[k + 1]>>, <<"0">>, <<"8">>, <<"0">>, <<"7">> >>)

\* What the k-th line can be: well-formed, cut short, or empty
GaugeStream(k) == { GaugeLine(k), Join(<< <<"0">>, <<"9">>, <<"0">> >>), <<>> }

\* The gauge controller transmits its next line; the bytes wait in the serial port
GaugeTransmit ==
    /\ script = "poll_vgc503"
    /\ pc = "POLLING"
    /\ Len(sent) < MaxLines
    /\ \E line \in GaugeStream(Len(sent) + 1) :
          /\ wire' = wire \o line \o <<CR, LF>>
          /\ sent' = Append(sent, line)
    /\ UNCHANGED <<diskVars, sessionVars, clock, written, buffer, split, pending,
                   readerVars, raw>>

InitSerial ==
    /\ fs = NoFiles
    /\ handles = 0
    /\ script = "poll_vgc503"
    /\ channel_flags = DefaultFlags
    /\ header_ok = FALSE
    /\ pc = "CONNECTING"
    /\ exc = "none"
    /\ clock = 0
    /\ sessions = 1
    /\ checks = 0
    /\ appended = 0
    /\ written = <<>>
    /\ pending = <<>>
    /\ raw = FALSE
    /\ IdleSerial
    /\ IdleReader

NextSerial == Connect \/ GaugeTransmit \/ Receiving

SpecSerial == InitSerial /\ [][NextSerial]_vars

(***************************************************************************)
(* plot.py: both readers and both charts in one script                     *)
(***************************************************************************)
\* rows = 86400 of plot.py
plot_rows == 86400

\* def plot(ax, df, truncate=False) of plot_vgc503.py and def plot(ax1, ax2, df) of
\* plot_model_336.py: the parameters without and with a default
plot_vgc503_parameters == [required |-> <<"ax", "df">>, optional |-> <<"truncate">>]
plot_model_336_parameters == [required |-> <<"ax1", "ax2", "df">>, optional |-> <<>>]

\* The positional arguments of the two calls of plot.py
plot_vgc503_arguments == <<"ax1", "df_vgc503", "truncate">>
plot_model_336_arguments == <<"ax2", "ax3", "df_model_336", "truncate">>

\* Python binds positional arguments to a function's parameters: too few or too many
\* is a TypeError
accepts(parameters, arguments) ==
    /\ Len(arguments) >= Len(parameters.required)
    /\ Len(arguments) <= Len(parameters.required) + Len(parameters.optional)

\* plot_vgc503.plot(ax1, df_vgc503, truncate) as plot.py calls it
call_plot_vgc503(frame) ==
    IF ~accepts(plot_vgc503_parameters, plot_vgc503_arguments) THEN "TypeError"
    ELSE plot_vgc503_plot(frame)

\* plot_model_336.plot(ax2, ax3, df_model_336, truncate) as plot.py calls it
call_plot_model_336(frame) ==
    IF ~accepts(plot_model_336_parameters, plot_model_336_arguments) THEN "TypeError"
    ELSE plot_model_336_plot(frame)

\* The first exception of a sequence of outcomes, "none" when there is none
first_raised(outcomes) ==
    IF \A i \in 1..Len(outcomes) : outcomes[i] = "none" THEN "none"
    ELSE outcomes[CHOOSE i \in 1..Len(outcomes) :
                      /\ outcomes[i] # "none"
                      /\ \A j \in 1..(i - 1) : outcomes[j] = "none"]

\* plot.py from its first fetch to plt.show() (fetch, fetch, draw, draw), or one
\* pass of its while loop (fetch, draw, fetch, draw).  The first exception ends the
\* script.
PlotPy ==
    /\ viewer = "plot"
    /\ rpc \in {"INIT", "SLEEP"}
    /\ LET df_vgc503 == gauge_data(fs[data_csv], plot_rows)
           df_model_336 == temperature_data(fs[file_path], plot_rows)
           outcomes == IF rpc = "INIT"
                       THEN <<df_vgc503.error, df_model_336.error,
                              call_plot_vgc503(df_vgc503),
                              call_plot_model_336(df_model_336)>>
                       ELSE <<df_vgc503.error, call_plot_vgc503(df_vgc503),
                              df_model_336.error,
                              call_plot_model_336(df_model_336)>>
           raised == first_raised(outcomes)
       IN  /\ df' = [vgc503 |-> df_vgc503, model_336 |-> df_model_336]
           /\ rexc' = raised
           /\ rpc' = IF raised = "none" THEN "SLEEP" ELSE "TERMINATED"
    /\ UNCHANGED <<diskVars, sessionVars, clock, written, serialVars, pending,
                   viewer, seen, torn, raw>>

\* The log file a writer script leaves after one pass of its loop
log_after_one_pass(sc) ==
    IF sc = "poll_vgc503"
    THEN writerow(<<now(0)>> \o parserow(GaugeLine(1)).fields)
    ELSE writerow(header_row(DefaultFlags))
         \o writerow(poll_row(DefaultFlags, CHOOSE r \in Readings : TRUE, 0))

\* plot.py beside one of the two writer scripts, the log file of the other being
\* absent or left by an earlier run
InitPlot ==
    /\ script \in {"poll_model_336", "poll_vgc503"}
    /\ \E other \in {"poll_model_336", "poll_vgc503"} \ {script}, present \in BOOLEAN :
          fs = [p \in Paths |->
                   IF p = log_of(other) /\ present
                   THEN [exists |-> TRUE, content |-> log_after_one_pass(other)]
                   ELSE NoFile]
    /\ handles = 0
    /\ channel_flags = DefaultFlags
    /\ header_ok = FALSE
    /\ pc = "CONNECTING"
    /\ exc = "none"
    /\ clock = 0
    /\ sessions = 1
    /\ checks = 0
    /\ appended = 0
    /\ written = <<>>
    /\ pending = <<>>
    /\ raw = FALSE
    /\ IdleSerial
    /\ viewer = "plot"
    /\ rpc = "INIT"
    /\ rexc = "none"
    /\ df = [vgc503 |-> NoFrame, model_336 |-> NoFrame]
    /\ seen = 0
    /\ torn = <<>>

NextPlot ==
    Connect \/ Tick \/ GaugeSend \/ Receiving \/ ExternalTruncate \/ PlotPy

SpecPlot == InitPlot /\ [][NextPlot]_vars

(***************************************************************************)
(* Properties of the poll_model_336.py session (Spec)                      *)
(***************************************************************************)
IsPrefix(s, t) == Len(s) <= Len(t) /\ SubSeq(t, 1, Len(s)) = s

\* The text of the first line of a file: what precedes its first terminator
FirstLine(text) ==
    LET B == BreakEnds(text)
    IN  IF B = {} THEN text
        ELSE SubSeq(text, 1, BreakStart(text, CHOOSE e \in B : \A x \in B : e <= x) - 1)

\* The number of fields csv finds in a line
FieldCount(line) ==
    IF line = <<>> THEN 0
    ELSE Cardinality({i \in 1..Len(line) : line[i] = COMMA}) + 1

LogLines == SplitLines(fs[file_path].content)

\* A pass of the loop that got past the instrument queries (it built its row)
PassedPolling == pc = "POLLING" /\ clock' # clock

\* C1: a tick of a session that has not yet validated its header, on a log file
\* that exists, is not empty and whose first line is not the session's header,
\* ends the script with the ValueError of check_header and leaves the file as it
\* was: the session has appended nothing.
C1_HeaderMismatchIsFatal ==
    [][ ( /\ PassedPolling
          /\ ~header_ok
          /\ isfile(fs, file_path)
          /\ fs[file_path].content # <<>>
          /\ FirstLine(fs[file_path].content) # Join(header_row(channel_flags)) )
        => ( /\ pc' = "TERMINATED"
             /\ exc' = "ValueError"
             /\ fs' = fs
             /\ appended' = 0 ) ]_vars

C1_Witness ==
    /\ exc = "ValueError"
    /\ checks = 1
    /\ appended = 0
    /\ Len(LogLines) >= 2
    /\ LogLines[1] # Join(header_row(channel_flags))

\* C4: a read failure of the instrument never ends the poll loop.
C4_ReadFailureKeepsPolling ==
    ~(pc = "TERMINATED" /\ exc = "InstrumentError")

\* C6: every line of the log file after the first has as many fields as the
\* first, and a data row appended by the session has 1 + 8 * (enabled channels)
\* fields, the length of header_row.
C6_RowsMatchHeaderWidth ==
    /\ \A i \in 2..Len(LogLines) : FieldCount(LogLines[i]) = FieldCount(LogLines[1])
    /\ (appended > 0 /\ LogLines # <<>>) =>
          /\ FieldCount(LogLines[Len(LogLines)]) = 1 + 8 * Len(channels(channel_flags))
          /\ FieldCount(LogLines[Len(LogLines)]) = Len(header_row(channel_flags))

C6_Witness ==
    /\ appended >= 2
    /\ Len(LogLines) >= 3
    /\ LogLines[1] = Join(header_row(channel_flags))
    /\ Len(channels(channel_flags)) >= 2

\* C7: a pass of the loop only appends: the file before it is a prefix of the file
\* after it, the file grows by one line per call of append (one for the header
\* when the file was missing, one for the row unless check_header raised), and no
\* file object stays open.
C7_AppendOnly ==
    [][ PassedPolling =>
          LET before == fs[file_path].content
              after == fs'[file_path].content
              calls == (IF isfile(fs, file_path) THEN 0 ELSE 1)
                       + (IF pc' = "POLLING" THEN 1 ELSE 0)
          IN  /\ IsPrefix(before, after)
              /\ Len(SplitLines(after)) = Len(SplitLines(before)) + calls
              /\ handles' = 0 ]_vars

C7_Witness ==
    /\ appended = 2
    /\ Len(LogLines) = 3
    /\ IsPrefix(writerow(header_row(channel_flags)), fs[file_path].content)
    /\ handles = 0

\* C8: check_header runs at most once in a run, it has run before any data row
\* is appended, and once header_ok is set it has run exactly once, whatever
\* happened to the file since.
C8_HeaderCheckedOnce ==
    /\ checks <= 1
    /\ appended > 0 => (checks = 1 /\ header_ok)
    /\ header_ok => checks = 1

\* two rows appended in one run, the file removed or emptied in between
C8_Witness ==
    /\ appended >= 2
    /\ checks = 1
    /\ header_ok
    /\ Len(LogLines) <= 2

(***************************************************************************)
(* Properties of the pipelines (SpecPipes)                                 *)
(***************************************************************************)
Min(a, b) == IF a <= b THEN a ELSE b

\* The names of the fields of the rows a writer script appends
field_names(sc, flags) ==
    IF sc = "poll_vgc503" THEN gauge_names
    ELSE IF sc = "model_336" THEN header_row(<<TRUE, FALSE, FALSE, FALSE>>)
    ELSE header_row(flags)

\* C3: a call of the reader with n = K on the log file a writer script has appended
\* M rows to (and nothing else was appended to) returns the last min(M, K) of those
\* rows, in the order they were appended.
C3_TailReturnsLastRows ==
    (df.error \notin {"unread", "FileNotFoundError"} /\ ~df.raw) =>
        /\ df.error = "none"
        /\ df.rows = tail(SubSeq(written, 1, seen), df.n)

\* C5: once a writer script has appended to a log file that did not exist, the
\* first line of the file is the header naming the fields of its rows, and no
\* later line is that header.
C5_HeaderWrittenOnce ==
    appended > 0 =>
        LET lines == SplitLines(fs[log_of(script)].content)
        IN  /\ lines # <<>>
            /\ lines[1] = Join(field_names(script, channel_flags))
            /\ \A i \in 2..Len(lines) : lines[i] # lines[1]

\* C9: a read of a log file that holds a malformed line (a value that is no
\* number, too few or too many fields) raises nothing and returns the rows the
\* writer appended.
C9_MalformedRowNotFatal ==
    (df.raw /\ script # "model_336") =>
        /\ df.error = "none"
        /\ Len(df.rows) >= Min(df.n, seen)

(***************************************************************************)
(* Properties of the reader beside a writer (SpecTail)                     *)
(***************************************************************************)
\* C2: a read made while the last line of the file has no terminator yet does not
\* return that line as a row.
C2_NoPartialRow ==
    (df.error = "none" /\ torn # <<>> /\ df.rows # <<>>) =>
        df.rows[Len(df.rows)] # frame_row(SplitFields(torn), Len(gauge_names))

(***************************************************************************)
(* Properties of the render loop (SpecRender)                              *)
(***************************************************************************)
\* C10: no fetch and draw ends the plot script because of the number of rows the
\* file holds: neither the reader on a file left without any line nor plot on a
\* frame without rows raises.
C10_RenderToleratesRowCount ==
    ~(rpc = "TERMINATED" /\ rexc \in {"IndexError", "EmptyDataError"})

(***************************************************************************)
(* Properties of handle_buffer (SpecBuffer)                                *)
(***************************************************************************)
\* Every line followed by "\r\n", one after the other
RECURSIVE Terminated(_)
Terminated(lines) ==
    IF lines = <<>> THEN <<>>
    ELSE Head(lines) \o <<CR, LF>> \o Terminated(Tail(lines))

\* The bytes after the last "\r\n" of a byte string, all of it when it holds none
AfterLastCrlf(bytes) ==
    LET S == CrlfStarts(bytes)
    IN  IF S = {} THEN bytes
        ELSE SubSeq(bytes, (CHOOSE i \in S : \A j \in S : j <= i) + 2, Len(bytes))

\* C11: handle_buffer(buffer) returns one line per "\r\n" of the buffer, none
\* holding a "\r\n" and none when the buffer holds no "\r\n"; the leftover is the
\* bytes after the last "\r\n"; the lines, each followed by "\r\n", and then the
\* leftover are the buffer again.
C11_HandleBufferSplits ==
    split.called =>
        /\ Len(split.lines) = Cardinality(CrlfStarts(split.arg))
        /\ \A i \in 1..Len(split.lines) : CrlfStarts(split.lines[i]) = {}
        /\ split.leftover = AfterLastCrlf(split.arg)
        /\ Terminated(split.lines) \o split.leftover = split.arg

(***************************************************************************)
(* Properties of receiving (SpecSerial)                                    *)
(***************************************************************************)
\* All the bytes the gauge controller has transmitted
Stream == Terminated(sent)

\* The bytes ser.read has returned so far: all but those waiting in the port
Received == SubSeq(Stream, 1, Len(Stream) - Len(wire))

\* The number of lines received with their terminator
Complete == Cardinality(CrlfStarts(Received))

\* A line parserow can parse: six fields or more
WellFormed(line) == FieldCount(line) >= 6

\* The three values of a well-formed line
Values(line) == <<SplitFields(line)[2], SplitFields(line)[4], SplitFields(line)[6]>>

\* The text of a file that rows were appended to, one after the other
RECURSIVE RowsText(_)
RowsText(rows) ==
    IF rows = <<>> THEN <<>> ELSE writerow(Head(rows)) \o RowsText(Tail(rows))

AllWellFormed == \A i \in 1..Len(sent) : WellFormed(sent[i])

\* C12: while the gauge controller transmits well-formed lines, however the bytes
\* are cut into reads: the rows appended to data.csv are the values of the lines
\* received with their terminator, one row per line and in the order of arrival;
\* the bytes received after the last terminator are in the buffer and not in the
\* file; parserow never raises; and the buffer changes only in a step of receiving
\* that took bytes from the port.
C12_ChunkingExactlyOnce ==
    /\ [](AllWellFormed =>
            /\ Len(written) = Complete
            /\ \A i \in 1..Len(written) : Tail(written[i]) = Values(sent[i])
            /\ fs[data_csv].content = RowsText(written)
            /\ buffer = AfterLastCrlf(Received)
            /\ exc # "IndexError")
    /\ [][buffer' # buffer => Len(wire') < Len(wire)]_vars

\* a line was written, and the next read ended between the "\r" and the "\n" of the
\* line after it
C12_Witness ==
    /\ AllWellFormed
    /\ Len(written) = 1
    /\ Len(sent) >= 2
    /\ buffer = sent[2] \o <<CR>>

(***************************************************************************)
(* Properties of plot.py (SpecPlot)                                        *)
(***************************************************************************)
\* C13: plot.py composes both pipelines: its call
\* plot_model_336.plot(ax2, ax3, df_model_336, truncate) is accepted by the plot
\* function of plot_model_336.py, so the script never ends with a TypeError on its
\* way into the update loop.
C13_PlotPyCallAccepted ==
    ~(viewer = "plot" /\ rpc = "TERMINATED" /\ rexc = "TypeError")

(***************************************************************************)
(* The first line of the log file of poll_model_336.py (Spec)              *)
(***************************************************************************)
\* C14: whatever the session finds at file_path on its first pass (no file, a file
\* with the matching header, a file with another first line, a file without any
\* line), the pass that appends the first data row of the session leaves a file
\* whose first line is the session's header_row: check_header accepts no file
\* that lacks it.
C14_FirstLineIsHeader ==
    [][ (PassedPolling /\ ~header_ok /\ appended' = appended + 1)
        => FirstLine(fs'[file_path].content) = Join(header_row(channel_flags)) ]_vars

\* C15: a pass of receiving whose batch of complete lines holds a line of fewer
\* than six fields ends the thread with the IndexError of parserow and appends no
\* row of the batch, the well-formed lines before the bad one included; and once
\* the thread has ended that way the file never changes again.
C15_BatchAllOrNothing ==
    [][ /\ (\E i \in (Complete + 1)..Complete' : ~WellFormed(sent'[i]))
              => /\ pc' = "TERMINATED"
                 /\ exc' = "IndexError"
                 /\ fs' = fs
                 /\ written' = written
        /\ exc = "IndexError" => (fs' = fs /\ written' = written) ]_vars

\* the first line was appended by one pass; the next pass read a well-formed line
\* and an empty line, and neither is in the file
C15_Witness ==
    /\ pc = "TERMINATED"
    /\ exc = "IndexError"
    /\ Len(sent) = 3
    /\ Complete = 3
    /\ Len(written) = 1
    /\ WellFormed(sent[2])
    /\ sent[3] = <<>>
    /\ fs[data_csv].content = RowsText(written)

====
